---------------------------- MODULE Spec2Model ----------------------------
(***************************************************************************)
(* Model of the two icon scripts of src-tauri/icons:                       *)
(*                                                                         *)
(*   gen_win_icons.py  renders icon-win.svg / tray-icon-win.svg to PNGs,   *)
(*                     packs an ICO, removes the temporary PNGs;           *)
(*   create_ico.py     packs the icon-win-{size}.png files it finds into   *)
(*                     icon-win.ico.                                       *)
(*                                                                         *)
(* The state is the icons directory (which files exist, the pixel size of  *)
(* each PNG, the frames of the ICO), the running script with its position  *)
(* (pc, loop index i) and its local variables (images, temp_files).        *)
(* One action per statement or loop iteration of a script.                 *)
(*                                                                         *)
(* Library calls are modelled by their documented behaviour:               *)
(*   - svg2rlg returns None for a file it cannot load or parse;            *)
(*   - renderPM.drawToFile writes a PNG whose pixel size is the            *)
(*     renderer's, drawn here from RenderDims(size);                       *)
(*   - Image.resize((w, h)) returns an image of exactly (w, h);            *)
(*   - Image.save(format='ICO', sizes=, append_images=) is Pillow's        *)
(*     IcoImagePlugin._save: see IcoSave below.                            *)
(* Writes to the directory succeed, and nothing but the two scripts        *)
(* changes the directory.                                                  *)
(***************************************************************************)
EXTENDS Integers, Sequences, FiniteSets, TLC

(***************************************************************************)
(* Bounds of the model.                                                    *)
(***************************************************************************)
\* number of script runs in one behaviour
MaxRuns == 2
\* the renderer's output is within this many pixels of the requested size
MaxRenderErr == 1
\* at most MaxPre icon-win-{size}.png files exist before the first run
MaxPre == 2
\* a PNG present before the first run is off its nominal size by 0..MaxStale
MaxStale == 1
\* drawing.width and drawing.height of an SVG are in 1..MaxDrawDim (Scale)
MaxDrawDim == 6

(***************************************************************************)
(* File names.  A name is a record: the pattern of the file name and the   *)
(* number N that the pattern embeds (0 when it embeds none).               *)
(***************************************************************************)
TempPng(n) == [kind |-> "icon-win-N.png", n |-> n]
SquareLogo(n) == [kind |-> "SquareNxNLogo-win.png", n |-> n]
GeneralPng(n) == [kind |-> "NxN-win.png", n |-> n]
StoreLogo == [kind |-> "StoreLogo-win.png", n |-> 0]
TrayPng == [kind |-> "tray-icon-win.png", n |-> 0]
IcoFile == [kind |-> "icon-win.ico", n |-> 0]

IconSvg == "icon-win.svg"
TraySvg == "tray-icon-win.svg"

(***************************************************************************)
(* The size tables of the scripts.                                         *)
(***************************************************************************)
sizes_short == <<16, 24, 32, 48, 64, 128>>

sizes == <<16, 24, 32, 48, 64, 128, 256>>
ico_sizes == <<16, 24, 32, 48, 64, 256>>
create_ico_sizes == <<16, 24, 32, 48, 64, 256>>

store_sizes_typo ==
    << <<SquareLogo(30), 30>>, <<SquareLogo(44), 44>>, <<SquareLogo(71), 17>>,
       <<SquareLogo(89), 89>>, <<SquareLogo(107), 107>>,
       <<SquareLogo(142), 142>>, <<SquareLogo(150), 150>>,
       <<SquareLogo(284), 284>>, <<SquareLogo(310), 310>>,
       <<StoreLogo, 50>> >>

store_sizes ==
    << <<SquareLogo(30), 30>>, <<SquareLogo(44), 44>>, <<SquareLogo(71), 71>>,
       <<SquareLogo(89), 89>>, <<SquareLogo(107), 107>>,
       <<SquareLogo(142), 142>>, <<SquareLogo(150), 150>>,
       <<SquareLogo(284), 284>>, <<SquareLogo(310), 310>>,
       <<StoreLogo, 50>> >>

general_icons ==
    << <<GeneralPng(32), 32>>, <<GeneralPng(64), 64>>,
       <<GeneralPng(128), 128>>, <<GeneralPng(256), 256>> >>

Range(s) == {s[k] : k \in 1..Len(s)}

TempFiles == {TempPng(n) : n \in Range(sizes) \cup Range(create_ico_sizes)}
StoreFiles == {store_sizes[k][1] : k \in 1..Len(store_sizes)}
GeneralFiles == {general_icons[k][1] : k \in 1..Len(general_icons)}
Files == TempFiles \cup StoreFiles \cup GeneralFiles \cup {TrayPng, IcoFile}

(***************************************************************************)
(* File contents.  A PNG has a pixel size (w, h); the ICO has a sequence   *)
(* of frames, each a pair <<w, h>>, whose length is its image-count field. *)
(* fresh: the file was written by the run in progress (or the last run).   *)
(***************************************************************************)
Absent == [present |-> FALSE, w |-> 0, h |-> 0, frames |-> <<>>, fresh |-> FALSE]
Png(w, h, fresh) ==
    [present |-> TRUE, w |-> w, h |-> h, frames |-> <<>>, fresh |-> fresh]
Ico(frames, fresh) ==
    [present |-> TRUE, w |-> 0, h |-> 0, frames |-> frames, fresh |-> fresh]

Img(w, h) == [w |-> w, h |-> h]

NoCall == [png |-> IcoFile, size |-> 0, rw |-> 0, rh |-> 0, returned |-> FALSE]

VARIABLES
    svg,         \* IconSvg, TraySvg -> "ok" | "bad" | "missing" (never written)
    dir,         \* Files -> contents
    script,      \* "none" | "gen" | "ico": the script that runs or ran last
    pc,          \* position in the script
    i,           \* index of the loop in progress
    images,      \* the list images of either script
    temp_files,  \* the list temp_files of gen_win_icons.main
    console,     \* the last message printed
    error,       \* the exception that ended the run, or "none"
    lastCall,    \* the svg_to_png call made by the last step, or NoCall
    runs,        \* number of runs started
    drawing,     \* Scale: drawing.width, drawing.height, its scale transform
    target,      \* Scale: the argument size
    scale,       \* Scale: scale_x, scale_y, scale, dpi as fractions <<num, den>>
    orig,        \* Scale: the drawing's width and height as parsed
    spc          \* Scale: position in svg_to_png lines 16-23

dirVars == <<svg, dir, script, pc, i, images, temp_files, console, error,
             lastCall, runs>>
scaleVars == <<drawing, target, scale, orig, spc>>
vars == <<svg, dir, script, pc, i, images, temp_files, console, error,
          lastCall, runs, drawing, target, scale, orig, spc>>


(***************************************************************************)
(* Pillow, as the scripts use it.                                          *)
(***************************************************************************)
Abs(x) == IF x < 0 THEN -x ELSE x
Max(a, b) == IF a >= b THEN a ELSE b

\* Image.resize((w, h), LANCZOS): an image of exactly the size asked for.
Resize(img, w, h) == Img(w, h)

\* Image.thumbnail(size): shrinks in place, keeping the aspect ratio; an image
\* that already fits is left alone.  round_aspect picks floor or ceil of the
\* scaled side, whichever keeps the ratio closer, and at least 1.
Thumbnail(img, s) ==
    IF s[1] >= img.w /\ s[2] >= img.h THEN img
    ELSE IF s[1] * img.h >= img.w * s[2]
         THEN LET fl == (s[2] * img.w) \div img.h
                  ce == IF (s[2] * img.w) % img.h = 0 THEN fl ELSE fl + 1
                  n  == IF Abs(img.w * s[2] - fl * img.h)
                              <= Abs(img.w * s[2] - ce * img.h) THEN fl ELSE ce
              IN  Img(Max(n, 1), s[2])
         ELSE LET fl == (s[1] * img.h) \div img.w
                  ce == IF (s[1] * img.h) % img.w = 0 THEN fl ELSE fl + 1
                  n  == IF fl = 0 \/ Abs(img.w * fl - s[1] * img.h) * ce
                                     <= Abs(img.w * ce - s[1] * img.h) * fl
                        THEN fl ELSE ce
              IN  Img(s[1], Max(n, 1))

\* sorted(set(sizes)) on pairs: ascending, lexicographic, duplicates dropped.
PairLess(a, b) == a[1] < b[1] \/ (a[1] = b[1] /\ a[2] < b[2])

RECURSIVE SortedSizes(_)
SortedSizes(S) ==
    IF S = {} THEN <<>>
    ELSE LET m == CHOOSE x \in S : \A y \in S : x = y \/ PairLess(x, y)
         IN  <<m>> \o SortedSizes(S \ {m})

\* im.save(fp, format='ICO', sizes=szs, append_images=more): the frames
\* written, in file order; the image-count field of the file is their number.
\* Pillow walks sorted(set(sizes)), ignores every size larger than the image
\* save() is called on (im) or than 256, and for each size kept writes the
\* first of [im] + append_images that has exactly that size, else a
\* thumbnail of the last of them.
IcoSave(im, szs, more) ==
    LET provided == <<im>> \o more
        Kept(s) == ~(s[1] > im.w \/ s[2] > im.h \/ s[1] > 256 \/ s[2] > 256)
        kept == SelectSeq(SortedSizes(Range(szs)), Kept)
        Frame(s) ==
            IF \E k \in 1..Len(provided) : <<provided[k].w, provided[k].h>> = s
            THEN s
            ELSE LET t == Thumbnail(provided[Len(provided)], s)
                 IN  <<t.w, t.h>>
    IN  [k \in 1..Len(kept) |-> Frame(kept[k])]

\* the image-count field (idCount) of an ICO file
ImageCount(f) == Len(f.frames)

(***************************************************************************)
(* svg_to_png(svg_path, png_path, size)                                    *)
(***************************************************************************)
\* svg2rlg(svg_path) is not None
Parses(path) == svg[path] = "ok"

\* the pixel sizes renderPM.drawToFile may produce for a requested size
RenderDims(size) ==
    {<<w, h>> \in ((size - MaxRenderErr)..(size + MaxRenderErr))
                   \X ((size - MaxRenderErr)..(size + MaxRenderErr)) :
        w > 0 /\ h > 0 /\ (h = w \/ h = size)}

EnsureSizeAsRendered(rw, rh, size) == Img(rw, rh)

\* lines 29-32: the size of the image at png_path when svg_to_png returns
EnsureSize(rw, rh, size) ==
    IF <<rw, rh>> # <<size, size>> THEN Resize(Img(rw, rh), size, size)
    ELSE Img(rw, rh)

\* the directory after svg_to_png returns, the renderer having drawn rw x rh
SvgToPng(d, png, size, rw, rh) ==
    LET img == EnsureSize(rw, rh, size)
    IN  [d EXCEPT ![png] = Png(img.w, img.h, TRUE)]

\* the record of a call of svg_to_png that raised
Raised(png, size) ==
    [png |-> png, size |-> size, rw |-> 0, rh |-> 0, returned |-> FALSE]

\* the record of a call of svg_to_png that returned
Returned(png, size, r) ==
    [png |-> png, size |-> size, rw |-> r[1], rh |-> r[2], returned |-> TRUE]

CallSvgToPngSkip(path, png, size, npc, ni) ==
    IF Parses(path)
    THEN \E r \in RenderDims(size) :
            /\ dir' = SvgToPng(dir, png, size, r[1], r[2])
            /\ lastCall' = Returned(png, size, r)
            /\ pc' = npc
            /\ i' = ni
            /\ console' = "Generated"
            /\ error' = error
    ELSE /\ dir' = dir
         /\ lastCall' = Raised(png, size)
         /\ pc' = npc
         /\ i' = ni
         /\ console' = "Warning: not found"
         /\ error' = error

CallSvgToPngRetry(path, png, size, npc, ni) ==
    IF Parses(path)
    THEN \E r \in RenderDims(size) :
            /\ dir' = SvgToPng(dir, png, size, r[1], r[2])
            /\ lastCall' = Returned(png, size, r)
            /\ pc' = npc
            /\ i' = ni
            /\ console' = "Generated"
            /\ error' = error
    ELSE /\ dir' = dir
         /\ lastCall' = Raised(png, size)
         /\ pc' = pc
         /\ i' = i
         /\ console' = "retry"
         /\ error' = error

\* A step of main that is one call of svg_to_png followed by its print:
\* on return main goes on at (npc, ni); on ValueError the run ends.
CallSvgToPng(path, png, size, npc, ni) ==
    IF Parses(path)
    THEN \E r \in RenderDims(size) :
            /\ dir' = SvgToPng(dir, png, size, r[1], r[2])
            /\ lastCall' = Returned(png, size, r)
            /\ pc' = npc
            /\ i' = ni
            /\ console' = "Generated"
            /\ error' = error
    ELSE /\ dir' = dir
         /\ lastCall' = Raised(png, size)
         /\ pc' = "failed"
         /\ i' = i
         /\ console' = console
         /\ error' = "ValueError"

(***************************************************************************)
(* Runs.                                                                   *)
(***************************************************************************)
Ended == {"done", "failed"}
Running == script # "none" /\ pc \notin Ended
CanStart == ~Running /\ runs < MaxRuns

\* a new process: nothing in the directory was written by it yet
Stale(d) == [f \in Files |-> [d[f] EXCEPT !.fresh = FALSE]]

Exists(f) == dir[f].present

StartRun(name, first) ==
    /\ CanStart
    /\ script' = name
    /\ pc' = first
    /\ i' = 1
    /\ images' = <<>>
    /\ temp_files' = <<>>
    /\ console' = ""
    /\ error' = "none"
    /\ lastCall' = NoCall
    /\ dir' = Stale(dir)
    /\ runs' = runs + 1
    /\ UNCHANGED <<svg, drawing, target, scale, orig, spc>>

(***************************************************************************)
(* gen_win_icons.py: main                                                  *)
(***************************************************************************)
GenStart == StartRun("gen", "temp")

\* lines 43-47, one iteration
GenTemp ==
    /\ script = "gen" /\ pc = "temp"
    /\ temp_files' = Append(temp_files, TempPng(sizes[i]))
    /\ CallSvgToPng(IconSvg, TempPng(sizes[i]), sizes[i],
                    IF i = Len(sizes) THEN "tray" ELSE "temp",
                    IF i = Len(sizes) THEN 1 ELSE i + 1)
    /\ UNCHANGED <<svg, script, images, runs, drawing, target, scale, orig, spc>>

\* lines 50-51
GenTray ==
    /\ script = "gen" /\ pc = "tray"
    /\ CallSvgToPng(TraySvg, TrayPng, 32, "open", 1)
    /\ UNCHANGED <<svg, script, images, temp_files, runs,
                   drawing, target, scale, orig, spc>>

\* lines 56-58, one iteration: Image.open raises when the file is missing
GenOpen ==
    /\ script = "gen" /\ pc = "open"
    /\ LET f == TempPng(ico_sizes[i])
       IN  IF Exists(f)
           THEN /\ images' = Append(images, Img(dir[f].w, dir[f].h))
                /\ pc' = IF i = Len(ico_sizes) THEN "save" ELSE "open"
                /\ i' = IF i = Len(ico_sizes) THEN 1 ELSE i + 1
                /\ error' = error
           ELSE /\ images' = images
                /\ pc' = "failed"
                /\ i' = i
                /\ error' = "FileNotFoundError"
    /\ lastCall' = NoCall
    /\ UNCHANGED <<svg, dir, script, temp_files, console, runs,
                   drawing, target, scale, orig, spc>>

\* lines 60-66: images[0].save('icon-win.ico', sizes=[(s, s) ...],
\* append_images=images[1:])
GenIco(imgs) ==
    Ico(IcoSave(Head(imgs), [k \in 1..Len(ico_sizes) |->
                                <<ico_sizes[k], ico_sizes[k]>>], Tail(imgs)),
        TRUE)

GenSave ==
    /\ script = "gen" /\ pc = "save"
    /\ dir' = [dir EXCEPT ![IcoFile] = GenIco(images)]
    /\ console' = "Generated icon-win.ico"
    /\ pc' = "store"
    /\ i' = 1
    /\ lastCall' = NoCall
    /\ UNCHANGED <<svg, script, images, temp_files, error, runs,
                   drawing, target, scale, orig, spc>>

\* lines 82-84, one iteration
GenStore ==
    /\ script = "gen" /\ pc = "store"
    /\ CallSvgToPng(IconSvg, store_sizes[i][1], store_sizes[i][2],
                    IF i = Len(store_sizes) THEN "general" ELSE "store",
                    IF i = Len(store_sizes) THEN 1 ELSE i + 1)
    /\ UNCHANGED <<svg, script, images, temp_files, runs,
                   drawing, target, scale, orig, spc>>

\* lines 94-96, one iteration
GenGeneral ==
    /\ script = "gen" /\ pc = "general"
    /\ CallSvgToPng(IconSvg, general_icons[i][1], general_icons[i][2],
                    IF i = Len(general_icons) THEN "cleanup" ELSE "general",
                    IF i = Len(general_icons) THEN 1 ELSE i + 1)
    /\ UNCHANGED <<svg, script, images, temp_files, runs,
                   drawing, target, scale, orig, spc>>

CleanedInverted(d, f) ==
    IF ~d[f].present THEN [d EXCEPT ![f] = Absent] ELSE d

\* lines 100-101: if os.path.exists(tmp_file): os.remove(tmp_file)
Cleaned(d, f) ==
    IF d[f].present THEN [d EXCEPT ![f] = Absent] ELSE d

\* lines 99-101, one iteration
GenCleanup ==
    /\ script = "gen" /\ pc = "cleanup"
    /\ dir' = Cleaned(dir, temp_files[i])
    /\ pc' = IF i = Len(temp_files) THEN "finish" ELSE "cleanup"
    /\ i' = IF i = Len(temp_files) THEN 1 ELSE i + 1
    /\ lastCall' = NoCall
    /\ UNCHANGED <<svg, script, images, temp_files, console, error, runs,
                   drawing, target, scale, orig, spc>>

\* line 103
GenDone ==
    /\ script = "gen" /\ pc = "finish"
    /\ console' = "Done! Windows icons generated successfully."
    /\ pc' = "done"
    /\ lastCall' = NoCall
    /\ UNCHANGED <<svg, dir, script, i, images, temp_files, error, runs,
                   drawing, target, scale, orig, spc>>

(***************************************************************************)
(* create_ico.py                                                           *)
(***************************************************************************)
IcoStart == StartRun("ico", "load")

\* lines 17-20: the image loaded from a file of w x h for the size wanted
Loaded(w, h, size) ==
    IF <<w, h>> # <<size, size>> THEN Resize(Img(w, h), size, size)
    ELSE Img(w, h)

\* lines 14-24, one iteration
IcoLoad ==
    /\ script = "ico" /\ pc = "load"
    /\ LET size == create_ico_sizes[i]
           f == TempPng(size)
       IN  IF Exists(f)
           THEN /\ images' = Append(images, Loaded(dir[f].w, dir[f].h, size))
                /\ console' = "Loaded"
           ELSE /\ images' = images
                /\ console' = "Warning: not found"
    /\ pc' = IF i = Len(create_ico_sizes) THEN "write" ELSE "load"
    /\ i' = IF i = Len(create_ico_sizes) THEN 1 ELSE i + 1
    /\ lastCall' = NoCall
    /\ UNCHANGED <<svg, dir, script, temp_files, error, runs,
                   drawing, target, scale, orig, spc>>

CreateIcoWriteAlways(d, imgs) ==
    [d EXCEPT ![IcoFile] =
        Ico(IF imgs = <<>> THEN <<>>
            ELSE IcoSave(Head(imgs),
                         [k \in 1..Len(imgs) |-> <<imgs[k].w, imgs[k].h>>],
                         Tail(imgs)),
            TRUE)]

\* lines 26-34: the directory after the if statement
CreateIcoWrite(d, imgs) ==
    IF imgs # <<>>
    THEN [d EXCEPT ![IcoFile] =
            Ico(IcoSave(Head(imgs),
                        [k \in 1..Len(imgs) |-> <<imgs[k].w, imgs[k].h>>],
                        Tail(imgs)),
                TRUE)]
    ELSE d

\* lines 26-47
IcoWrite ==
    /\ script = "ico" /\ pc = "write"
    /\ dir' = CreateIcoWrite(dir, images)
    /\ console' = IF images # <<>> THEN "ICO contains images"
                  ELSE "No images found!"
    /\ pc' = "done"
    /\ lastCall' = NoCall
    /\ UNCHANGED <<svg, script, i, images, temp_files, error, runs,
                   drawing, target, scale, orig, spc>>

(***************************************************************************)
(* The directory before the first run.                                     *)
(***************************************************************************)
SvgStates == {"ok", "bad", "missing"}

NoScale == [x |-> <<1, 1>>, y |-> <<1, 1>>, s |-> <<1, 1>>, dpi |-> <<72, 1>>]

ScaleIdle ==
    /\ drawing = [width |-> 1, height |-> 1, sx |-> <<1, 1>>, sy |-> <<1, 1>>]
    /\ target = 1
    /\ scale = NoScale
    /\ orig = [width |-> 1, height |-> 1]
    /\ spc = "idle"

Init ==
    /\ svg \in [{IconSvg, TraySvg} -> SvgStates]
    /\ \E P \in SUBSET TempFiles, off \in 0..MaxStale, ico \in BOOLEAN :
          /\ Cardinality(P) <= MaxPre
          /\ dir = [f \in Files |->
                      IF f \in P THEN Png(f.n + off, f.n + off, FALSE)
                      ELSE IF f = IcoFile /\ ico
                           THEN Ico(<<<<32, 32>>>>, FALSE)
                           ELSE Absent]
    /\ script = "none"
    /\ pc = "done"
    /\ i = 1
    /\ images = <<>>
    /\ temp_files = <<>>
    /\ console = ""
    /\ error = "none"
    /\ lastCall = NoCall
    /\ runs = 0
    /\ ScaleIdle

GenStep ==
    \/ GenTemp
    \/ GenTray
    \/ GenOpen
    \/ GenSave
    \/ GenStore
    \/ GenGeneral
    \/ GenCleanup
    \/ GenDone

IcoStep ==
    \/ IcoLoad
    \/ IcoWrite

Next ==
    \/ GenStart
    \/ IcoStart
    \/ GenStep
    \/ IcoStep

Spec == Init /\ [][Next]_vars

\* a started script runs on: the interpreter executes the next statement
FairSpec == Spec /\ WF_vars(GenStep \/ IcoStep)

(***************************************************************************)
(* svg_to_png lines 16-26: the scale factor.  Python's floats are modelled *)
(* as exact fractions <<numerator, denominator>>, denominator > 0.         *)
(***************************************************************************)
FracLeq(a, b) == a[1] * b[2] <= b[1] * a[2]
FracMul(a, b) == <<a[1] * b[1], a[2] * b[2]>>
\* size / x
Div(size, x) == <<size, x>>

MaxOfScales(a, b) == IF FracLeq(b, a) THEN a ELSE b

\* line 19: min(scale_x, scale_y); of two equal values min returns the first
MinScale(a, b) == IF FracLeq(a, b) THEN a ELSE b

\* every size svg_to_png is called with
CallSizes ==
    Range(sizes) \cup {32} \cup {store_sizes[k][2] : k \in 1..Len(store_sizes)}
      \cup {general_icons[k][2] : k \in 1..Len(general_icons)}

DirIdle ==
    /\ svg = [p \in {IconSvg, TraySvg} |-> "ok"]
    /\ dir = [f \in Files |-> Absent]
    /\ script = "none"
    /\ pc = "done"
    /\ i = 1
    /\ images = <<>>
    /\ temp_files = <<>>
    /\ console = ""
    /\ error = "none"
    /\ lastCall = NoCall
    /\ runs = 0

\* line 12 has returned a drawing of width x height, not yet transformed
ScaleInit ==
    /\ DirIdle
    /\ \E w \in 1..MaxDrawDim, h \in 1..MaxDrawDim :
          /\ drawing = [width |-> w, height |-> h,
                        sx |-> <<1, 1>>, sy |-> <<1, 1>>]
          /\ orig = [width |-> w, height |-> h]
    /\ target \in CallSizes
    /\ scale = NoScale
    /\ spc = "parsed"

\* lines 17-19
ComputeScale ==
    /\ spc = "parsed"
    /\ LET scale_x == Div(target, drawing.width)
           scale_y == Div(target, drawing.height)
       IN  scale' = [scale EXCEPT !.x = scale_x, !.y = scale_y,
                                  !.s = MinScale(scale_x, scale_y)]
    /\ spc' = "computed"
    /\ UNCHANGED <<drawing, target, orig>>
    /\ UNCHANGED dirVars

\* lines 21-22
SetCanvas ==
    /\ spc = "computed"
    /\ drawing' = [drawing EXCEPT !.width = target, !.height = target]
    /\ spc' = "resized"
    /\ UNCHANGED <<scale, target, orig>>
    /\ UNCHANGED dirVars

\* line 23: drawing.scale(scale, scale)
ApplyScale ==
    /\ spc = "resized"
    /\ drawing' = [drawing EXCEPT !.sx = FracMul(@, scale.s),
                                  !.sy = FracMul(@, scale.s)]
    /\ spc' = "scaled"
    /\ UNCHANGED <<scale, target, orig>>
    /\ UNCHANGED dirVars

\* line 26: dpi = 72 * (size / max(drawing.width, drawing.height) * scale)
ComputeDpi ==
    /\ spc = "scaled"
    /\ scale' = [scale EXCEPT !.dpi =
                    FracMul(<<72, 1>>,
                            FracMul(Div(target, Max(drawing.width,
                                                    drawing.height)),
                                    scale.s))]
    /\ spc' = "rendered"
    /\ UNCHANGED <<drawing, target, orig>>
    /\ UNCHANGED dirVars

ScaleNext ==
    \/ ComputeScale
    \/ SetCanvas
    \/ ApplyScale
    \/ ComputeDpi

ScaleSpec == ScaleInit /\ [][ScaleNext]_vars

(***************************************************************************)
(* Properties.                                                             *)
(***************************************************************************)
Present == {f \in Files : dir[f].present}
Written == {f \in Files : dir[f].present /\ dir[f].fresh}
GenEnded == script = "gen" /\ pc \in Ended

\* C1: when svg_to_png returns, the image at png_path is exactly size x size,
\* whatever size the renderer produced.
SvgToPngExactSize ==
    lastCall.returned =>
        /\ dir[lastCall.png].present
        /\ <<dir[lastCall.png].w, dir[lastCall.png].h>>
              = <<lastCall.size, lastCall.size>>

\* C1 witness: svg_to_png has returned after the renderer produced a raster
\* that was not size x size.
SvgToPngResized ==
    /\ lastCall.returned
    /\ <<lastCall.rw, lastCall.rh>> # <<lastCall.size, lastCall.size>>
    /\ dir[lastCall.png].present

\* C2: the icon-win.ico written by gen_win_icons.main has an image count of
\* 6, one image for each of the sizes 16, 24, 32, 48, 64, 256.
GenIcoHoldsAllSizes ==
    (script = "gen" /\ IcoFile \in Written) =>
        /\ ImageCount(dir[IcoFile]) = 6
        /\ Range(dir[IcoFile].frames) = {<<n, n>> : n \in {16, 24, 32, 48, 64, 256}}

\* C3: once main has written icon-win.ico, no icon-win-{size}.png exists when
\* the script ends, and no such file is removed before the ICO is written.
TempFilesRemovedAfterIco ==
    /\ [](GenEnded /\ IcoFile \in Written =>
            \A n \in {16, 24, 32, 48, 64, 128, 256} : ~dir[TempPng(n)].present)
    /\ [][(script = "gen" /\ \E n \in {16, 24, 32, 48, 64, 128, 256} :
                dir[TempPng(n)].present /\ ~dir'[TempPng(n)].present)
            => IcoFile \in Written]_vars

\* C3 witness: main has ended after writing the ICO and after removing a
\* temporary PNG.
GenCleanedUp ==
    /\ script = "gen" /\ pc = "done"
    /\ IcoFile \in Written
    /\ ~dir[TempPng(128)].present

\* the sizes whose icon-win-{size}.png exists
FoundSizes == {n \in {16, 24, 32, 48, 64, 256} : dir[TempPng(n)].present}

RECURSIVE Ascending(_)
Ascending(S) ==
    IF S = {} THEN <<>>
    ELSE LET m == CHOOSE x \in S : \A y \in S : x <= y
         IN  <<m>> \o Ascending(S \ {m})

\* C4: create_ico.py loads exactly the existing icon-win-{size}.png files in
\* ascending size order, each as size x size, and when there is at least one
\* writes an icon-win.ico whose image count is their number.
CreateIcoCountsEveryFile ==
    (script = "ico" /\ pc = "done") =>
        /\ images = [k \in 1..Cardinality(FoundSizes) |->
                        Img(Ascending(FoundSizes)[k], Ascending(FoundSizes)[k])]
        /\ FoundSizes # {} =>
              /\ IcoFile \in Written
              /\ ImageCount(dir[IcoFile]) = Cardinality(FoundSizes)

\* C5: with icon-win.svg or tray-icon-win.svg missing or unparsable, main
\* ends in an unhandled error at the svg_to_png call that reads it: nothing
\* after that call is written and the final message is not printed.
GenFailsOnBadSvg ==
    (script = "gen" /\ (svg[IconSvg] # "ok" \/ svg[TraySvg] # "ok")) =>
        /\ pc # "done"
        /\ console # "Done! Windows icons generated successfully."
        /\ pc = "failed" =>
              /\ error = "ValueError"
              /\ ~lastCall.returned
              /\ svg[IconSvg] # "ok" => Written = {}
              /\ svg[IconSvg] = "ok" =>
                    Written = {TempPng(n) : n \in {16, 24, 32, 48, 64, 128, 256}}

\* C5 witness: main has stopped at the tray icon call, after the temporary
\* PNGs were written.
GenFailedAtTray ==
    /\ script = "gen" /\ pc = "failed"
    /\ svg[IconSvg] = "ok" /\ svg[TraySvg] = "missing"
    /\ lastCall.png = TrayPng

\* C6: a PNG whose file name embeds N is requested with size N, and after a
\* successful run of main the files left are tray-icon-win.png, icon-win.ico,
\* the ten Store logos and the four {N}x{N}-win.png files.
NamesEncodeSizes ==
    /\ (lastCall.size # 0 /\ lastCall.png.n # 0) => lastCall.size = lastCall.png.n
    /\ (script = "gen" /\ pc = "done") =>
          /\ Present = {TrayPng, IcoFile, StoreLogo}
                \cup {SquareLogo(n) : n \in {30, 44, 71, 89, 107, 142, 150, 284, 310}}
                \cup {GeneralPng(n) : n \in {32, 64, 128, 256}}
          /\ \A f \in Present : f.n # 0 => <<dir[f].w, dir[f].h>> = <<f.n, f.n>>

\* C6 witness: main has completed and left the largest Store logo.
GenLeftOutputs ==
    /\ script = "gen" /\ pc = "done"
    /\ dir[SquareLogo(310)].fresh
    /\ dir[SquareLogo(310)].w = 310

\* the position of a script, ordered as its statements are
PcRank(p) ==
    CASE p \in {"temp", "load"} -> 1
      [] p \in {"tray", "write"} -> 2
      [] p = "open" -> 3
      [] p = "save" -> 4
      [] p = "store" -> 5
      [] p = "general" -> 6
      [] p = "cleanup" -> 7
      [] p = "finish" -> 8
      [] OTHER -> 9
Rank == PcRank(pc) * 1000 + i

\* C7: a started script reaches normal completion or an unhandled error, and
\* every step moves it forward in its one sequential order (no step is
\* repeated or retried).
ScriptsTerminate ==
    /\ Running ~> ~Running
    /\ [][Running => Rank' > Rank]_vars

\* C7 witness: a second run, of main, has completed.
SecondRunCompleted ==
    /\ runs = 2
    /\ script = "gen" /\ pc = "done"

GenReadsOwnFiles ==
    script = "gen" =>
        /\ error # "FileNotFoundError"
        /\ pc = "open" =>
              \A k \in 1..Len(ico_sizes) :
                  TempPng(ico_sizes[k]) \in Written
        /\ pc \in {"open", "save"} =>
              \A n \in {16, 24, 32, 48, 64, 128, 256} : TempPng(n) \in Written

\* C9 witness: main has read all six files.
GenReadAll ==
    /\ script = "gen" /\ pc = "save"
    /\ Len(images) = 6

\* C10: create_ico.py changes no file but icon-win.ico, removes none, writes
\* icon-win.ico only when it loaded an image, and with none of the six PNGs
\* there loads nothing and reports that no images were found.
CreateIcoOnlyWritesIco ==
    /\ [][(script = "ico" /\ Running) =>
            /\ \A f \in Files \ {IcoFile} : dir'[f] = dir[f]
            /\ \A f \in Files : dir[f].present => dir'[f].present
            /\ dir'[IcoFile] # dir[IcoFile] => images # <<>>]_vars
    /\ [](script = "ico" /\ FoundSizes = {} =>
            /\ images = <<>>
            /\ pc = "done" => console = "No images found!")

\* C10 witness: create_ico.py has ended without an image, run after main
\* completed.
CreateIcoAfterGen ==
    /\ script = "ico" /\ pc = "done"
    /\ images = <<>>
    /\ console = "No images found!"
    /\ Present = {TrayPng, IcoFile} \cup StoreFiles \cup GeneralFiles

=============================================================================
